---- MODULE Spec2Model ----
(***************************************************************************)
(* Model of the three setuid wrappers of jantman/misc-scripts:             *)
(*   cmd-wrapper.c        dual-mode dispatcher (pre / post)                *)
(*   rsync-wrapper.c      single-action dispatcher (rsync --server)        *)
(*   print-cmd-wrapper.c  diagnostic that prints SSH_ORIGINAL_COMMAND      *)
(* One run of one program is one behaviour; every C statement of main is   *)
(* one action, selected by the program counter pc.                         *)
(***************************************************************************)
EXTENDS Integers, Sequences, FiniteSets, TLC

(* ---------------------------- bounds --------------------------------- *)
\* longest command string enumerated over the alphabet Chars
MaxCmdLen == 3
\* largest argument count tried
MaxArgc == 2

(* ------------------------ program constants -------------------------- *)
AUTHORIZED_GID == 502
ROOT == 0
\* value of exitStatus while the process has not called exit
NoStatus == 0 - 1

(* ------------------------------ strings ------------------------------ *)
\* C strings are sequences of one-character strings; NUL is the terminator
NUL == "NUL"
Chars == {"p", "r", "e", "o", "s", "t"}

S_pre == <<"p", "r", "e">>
S_post == <<"p", "o", "s", "t">>
S_posterior == <<"p", "o", "s", "t", "e", "r", "i", "o", "r">>
S_posted == <<"p", "o", "s", "t", "e", "d">>
S_preempt == <<"p", "r", "e", "e", "m", "p", "t">>
S_prepost == <<"p", "r", "e", "p", "o", "s", "t">>
S_postpre == <<"p", "o", "s", "t", "p", "r", "e">>
S_null == <<"(", "n", "u", "l", "l", ")">>

\* ASCII code of a character (unsigned char, as strncmp compares)
Ord(c) ==
  CASE c = NUL -> 0
    [] c = "(" -> 40
    [] c = ")" -> 41
    [] c = "d" -> 100
    [] c = "e" -> 101
    [] c = "i" -> 105
    [] c = "l" -> 108
    [] c = "m" -> 109
    [] c = "n" -> 110
    [] c = "o" -> 111
    [] c = "p" -> 112
    [] c = "r" -> 114
    [] c = "s" -> 115
    [] c = "t" -> 116
    [] c = "u" -> 117

\* the byte at 1-based position i of a NUL-terminated string
CharAt(s, i) == IF i <= Len(s) THEN s[i] ELSE NUL

RECURSIVE StrncmpFrom(_, _, _, _)
StrncmpFrom(a, b, i, n) ==
  IF i > n THEN 0
  ELSE LET ca == CharAt(a, i)
           cb == CharAt(b, i)
       IN IF ca # cb THEN Ord(ca) - Ord(cb)
          ELSE IF ca = NUL THEN 0
          ELSE StrncmpFrom(a, b, i + 1, n)

\* strncmp(a, b, n): compares at most n bytes and stops at the terminator
Strncmp(a, b, n) == StrncmpFrom(a, b, 1, n)

\* all strings over Chars of length at most n
RECURSIVE StringsUpTo(_)
StringsUpTo(n) ==
  IF n = 0 THEN {<<>>}
  ELSE LET shorter == StringsUpTo(n - 1)
       IN shorter \cup {Append(s, c) : s \in {t \in shorter : Len(t) = n - 1}, c \in Chars}

\* a char* value: a null pointer, or a pointer to a string
NULL == [present |-> FALSE, str |-> <<>>]
Ptr(s) == [present |-> TRUE, str |-> s]

CmdStrings ==
  StringsUpTo(MaxCmdLen)
    \cup {S_pre, S_post, S_posterior, S_posted, S_preempt, S_prepost, S_postpre}

\* the values getenv("SSH_ORIGINAL_COMMAND") can return
EnvValues == {NULL} \cup {Ptr(s) : s \in CmdStrings}

(* ---------------------------- identities ----------------------------- *)
Uids == {ROOT, 1000}
Gids == {ROOT, AUTHORIZED_GID, 999}

(* ------------------------------ state -------------------------------- *)
VARIABLES
  prog,        \* which program runs: "cmd", "rsync" or "print"
  pc,          \* the statement main is about to execute
  argc,        \* argument count main was called with
  env,         \* value of SSH_ORIGINAL_COMMAND in the environment
  start,       \* the four process ids at the call of main
  ruid, euid, suid,   \* real, effective and saved user id
  rgid, egid, sgid,   \* real, effective and saved group id
  gid,         \* the global int gid
  origcmd,     \* the local char *origcmd
  stdout,      \* what printf wrote, one record per call
  stderr,      \* what perror wrote
  execLog,     \* every execl attempted: path, argument vector, result
  cmpLog,      \* every strncmp evaluated: literal, length, result
  idLog,       \* every set*id call: name, argument, result
  trace,       \* the statements executed so far, in order
  nullDeref,   \* TRUE once a null origcmd was passed to strncmp or %s
  exitStatus   \* argument of exit(), NoStatus before

vars == <<prog, pc, argc, env, start, ruid, euid, suid, rgid, egid, sgid, gid,
          origcmd, stdout, stderr, execLog, cmpLog, idLog, trace, nullDeref,
          exitStatus>>

inputs == <<prog, argc, env, start>>
uids == <<ruid, euid, suid>>
gids == <<rgid, egid, sgid>>
logs == <<stdout, stderr, execLog, cmpLog, idLog, nullDeref>>

Programs == {"cmd", "rsync", "print"}
Terminal == {"exited", "replaced", "killed"}

\* the first statement of each main
Entry(p) == IF p = "rsync" THEN "getgid" ELSE "getenv"

\* the state of the process when main is entered: the ids are those of the
\* caller, except that a set-user-id / set-group-id root binary starts with
\* effective (and saved) id 0
Init ==
  /\ prog \in Programs
  /\ argc \in 0..MaxArgc
  /\ env \in EnvValues
  /\ ruid \in Uids
  /\ rgid \in Gids
  /\ euid \in {ruid, ROOT}
  /\ egid \in {rgid, ROOT}
  /\ suid = euid
  /\ sgid = egid
  /\ start = [ruid |-> ruid, euid |-> euid, rgid |-> rgid, egid |-> egid]
  /\ pc = Entry(prog)
  /\ gid = 0
  /\ origcmd = NULL
  /\ stdout = <<>>
  /\ stderr = <<>>
  /\ execLog = <<>>
  /\ cmpLog = <<>>
  /\ idLog = <<>>
  /\ trace = <<>>
  /\ nullDeref = FALSE
  /\ exitStatus = NoStatus

(* --------------------------- library calls --------------------------- *)
\* printf(fmt) and printf(fmt, arg): one record per call
Out(fmt) == [fmt |-> fmt, arg |-> <<>>]
OutS(fmt, s) == [fmt |-> fmt, arg |-> s]

\* exit(status)
Exit(status) ==
  /\ pc' = "exited"
  /\ exitStatus' = status

\* setegid(g): permitted to a privileged process, or when g is one of the
\* real, effective or saved group ids; changes the effective group id only
Setegid(g) ==
  LET ok == euid = ROOT \/ g \in {rgid, egid, sgid}
  IN /\ egid' = IF ok THEN g ELSE egid
     /\ UNCHANGED <<rgid, sgid, uids>>
     /\ idLog' = Append(idLog, [call |-> "setegid", arg |-> g, ok |-> ok])

\* seteuid(u): permitted to a privileged process, or when u is one of the
\* real, effective or saved user ids; changes the effective user id only
Seteuid(u) ==
  LET ok == euid = ROOT \/ u \in {ruid, euid, suid}
  IN /\ euid' = IF ok THEN u ELSE euid
     /\ UNCHANGED <<ruid, suid, gids>>
     /\ idLog' = Append(idLog, [call |-> "seteuid", arg |-> u, ok |-> ok])

\* setgid(g): a privileged process sets real, effective and saved group id;
\* an unprivileged one may set the effective id to the real or saved id
Setgid(g) ==
  LET priv == euid = ROOT
      ok == priv \/ g \in {rgid, sgid}
  IN /\ rgid' = IF priv THEN g ELSE rgid
     /\ sgid' = IF priv THEN g ELSE sgid
     /\ egid' = IF ok THEN g ELSE egid
     /\ UNCHANGED uids
     /\ idLog' = Append(idLog, [call |-> "setgid", arg |-> g, ok |-> ok])

\* setuid(u): a privileged process sets real, effective and saved user id;
\* an unprivileged one may set the effective id to the real or saved id
Setuid(u) ==
  LET priv == euid = ROOT
      ok == priv \/ u \in {ruid, suid}
  IN /\ ruid' = IF priv THEN u ELSE ruid
     /\ suid' = IF priv THEN u ELSE suid
     /\ euid' = IF ok THEN u ELSE euid
     /\ UNCHANGED gids
     /\ idLog' = Append(idLog, [call |-> "setuid", arg |-> u, ok |-> ok])

\* if (execl(path, argv...) < 0) perror("Execl:");
\* on success the process image is replaced and main never continues; on
\* failure execl returns -1, perror reports errno and control falls to next
ExecOrPerror(path, argv, next) ==
  \E ok \in BOOLEAN :
    /\ execLog' = Append(execLog, [path |-> path, argv |-> argv, ok |-> ok])
    /\ IF ok
         THEN /\ pc' = "replaced"
              /\ UNCHANGED stderr
         ELSE /\ pc' = next
              /\ stderr' = Append(stderr, "Execl:")

(* --------------------------- cmd-wrapper.c --------------------------- *)
\* origcmd = getenv("SSH_ORIGINAL_COMMAND");
Cmd_GetEnv ==
  /\ prog = "cmd" /\ pc = "getenv"
  /\ origcmd' = env
  /\ pc' = "getgid"
  /\ trace' = Append(trace, "getenv")
  /\ UNCHANGED <<inputs, uids, gids, gid, logs, exitStatus>>

\* faulty variant: the effective group id is read, gid = getegid()
Cmd_GetGid_Getegid ==
  /\ prog = "cmd" /\ pc = "getgid"
  /\ gid' = egid
  /\ pc' = "drop_egid"
  /\ trace' = Append(trace, "getgid")
  /\ UNCHANGED <<inputs, uids, gids, origcmd, logs, exitStatus>>

\* gid = getgid();
Cmd_GetGid ==
  /\ prog = "cmd" /\ pc = "getgid"
  /\ gid' = rgid
  /\ pc' = "drop_egid"
  /\ trace' = Append(trace, "getgid")
  /\ UNCHANGED <<inputs, uids, gids, origcmd, logs, exitStatus>>

\* faulty variant: the effective group id is set to itself, setegid(getegid())
Cmd_DropEgid_Getegid ==
  /\ prog = "cmd" /\ pc = "drop_egid"
  /\ Setegid(egid)
  /\ pc' = "drop_euid"
  /\ trace' = Append(trace, "drop_egid")
  /\ UNCHANGED <<inputs, gid, origcmd, stdout, stderr, execLog, cmpLog,
                 nullDeref, exitStatus>>

\* setegid(getgid());
Cmd_DropEgid ==
  /\ prog = "cmd" /\ pc = "drop_egid"
  /\ Setegid(rgid)
  /\ pc' = "drop_euid"
  /\ trace' = Append(trace, "drop_egid")
  /\ UNCHANGED <<inputs, gid, origcmd, stdout, stderr, execLog, cmpLog,
                 nullDeref, exitStatus>>

\* seteuid(getuid());
Cmd_DropEuid ==
  /\ prog = "cmd" /\ pc = "drop_euid"
  /\ Seteuid(ruid)
  /\ pc' = "auth"
  /\ trace' = Append(trace, "drop_euid")
  /\ UNCHANGED <<inputs, gid, origcmd, stdout, stderr, execLog, cmpLog,
                 nullDeref, exitStatus>>

\* faulty variant: the rejection prints its message but does not exit
Cmd_AuthCheck_NoExit ==
  /\ prog = "cmd" /\ pc = "auth"
  /\ trace' = Append(trace, "auth")
  /\ stdout' = IF gid # AUTHORIZED_GID
                 THEN Append(stdout, Out("User Not Authorized! Exiting...\n"))
                 ELSE stdout
  /\ pc' = "argc"
  /\ UNCHANGED <<inputs, uids, gids, gid, origcmd, stderr, execLog, cmpLog,
                 idLog, nullDeref, exitStatus>>

\* if ( gid != 502 ) { printf("User Not Authorized! Exiting...\n"); exit(1); }
Cmd_AuthCheck ==
  /\ prog = "cmd" /\ pc = "auth"
  /\ trace' = Append(trace, "auth")
  /\ IF gid # AUTHORIZED_GID
       THEN /\ stdout' = Append(stdout, Out("User Not Authorized! Exiting...\n"))
            /\ Exit(1)
       ELSE /\ pc' = "argc"
            /\ UNCHANGED <<stdout, exitStatus>>
  /\ UNCHANGED <<inputs, uids, gids, gid, origcmd, stderr, execLog, cmpLog,
                 idLog, nullDeref>>

\* faulty variant: only a missing argv[0] is refused (argc < 1), extra
\* arguments are let through
Cmd_ArgcCheck_AtLeastOne ==
  /\ prog = "cmd" /\ pc = "argc"
  /\ trace' = Append(trace, "argc")
  /\ IF argc < 1
       THEN /\ stdout' = Append(stdout, Out("Usage: cmd-wrapper [pre|post]\n"))
            /\ Exit(1)
       ELSE /\ pc' = "esc_egid"
            /\ UNCHANGED <<stdout, exitStatus>>
  /\ UNCHANGED <<inputs, uids, gids, gid, origcmd, stderr, execLog, cmpLog,
                 idLog, nullDeref>>

\* if ( argc != 1 ) { printf("Usage: cmd-wrapper [pre|post]\n"); exit(1); }
Cmd_ArgcCheck ==
  /\ prog = "cmd" /\ pc = "argc"
  /\ trace' = Append(trace, "argc")
  /\ IF argc # 1
       THEN /\ stdout' = Append(stdout, Out("Usage: cmd-wrapper [pre|post]\n"))
            /\ Exit(1)
       ELSE /\ pc' = "esc_egid"
            /\ UNCHANGED <<stdout, exitStatus>>
  /\ UNCHANGED <<inputs, uids, gids, gid, origcmd, stderr, execLog, cmpLog,
                 idLog, nullDeref>>

\* setegid(0);
Cmd_EscEgid ==
  /\ prog = "cmd" /\ pc = "esc_egid"
  /\ Setegid(ROOT)
  /\ pc' = "esc_euid"
  /\ trace' = Append(trace, "esc_egid")
  /\ UNCHANGED <<inputs, gid, origcmd, stdout, stderr, execLog, cmpLog,
                 nullDeref, exitStatus>>

\* seteuid(0);
Cmd_EscEuid ==
  /\ prog = "cmd" /\ pc = "esc_euid"
  /\ Seteuid(ROOT)
  /\ pc' = "esc_gid"
  /\ trace' = Append(trace, "esc_euid")
  /\ UNCHANGED <<inputs, gid, origcmd, stdout, stderr, execLog, cmpLog,
                 nullDeref, exitStatus>>

\* faulty variant: only the effective group id is raised, the real group
\* id is left alone
Cmd_EscGid_EgidOnly ==
  /\ prog = "cmd" /\ pc = "esc_gid"
  /\ Setegid(ROOT)
  /\ pc' = "esc_uid"
  /\ trace' = Append(trace, "esc_gid")
  /\ UNCHANGED <<inputs, gid, origcmd, stdout, stderr, execLog, cmpLog,
                 nullDeref, exitStatus>>

\* setgid(0);
Cmd_EscGid ==
  /\ prog = "cmd" /\ pc = "esc_gid"
  /\ Setgid(ROOT)
  /\ pc' = "esc_uid"
  /\ trace' = Append(trace, "esc_gid")
  /\ UNCHANGED <<inputs, gid, origcmd, stdout, stderr, execLog, cmpLog,
                 nullDeref, exitStatus>>

\* setuid(0);
Cmd_EscUid ==
  /\ prog = "cmd" /\ pc = "esc_uid"
  /\ Setuid(ROOT)
  /\ pc' = "cmp_pre"
  /\ trace' = Append(trace, "esc_uid")
  /\ UNCHANGED <<inputs, gid, origcmd, stdout, stderr, execLog, cmpLog,
                 nullDeref, exitStatus>>

\* one evaluation of strncmp(origcmd, lit, n) == 0, continuing at onZero or
\* onOther.  A null origcmd makes the call undefined: the process may be
\* killed by SIGSEGV, or the call may return any value.
CmpBranch(lit, n, onZero, onOther) ==
  IF origcmd.present
    THEN LET res == Strncmp(origcmd.str, lit, n)
         IN /\ cmpLog' = Append(cmpLog, [lit |-> lit, n |-> n, zero |-> (res = 0)])
            /\ pc' = IF res = 0 THEN onZero ELSE onOther
            /\ UNCHANGED nullDeref
    ELSE /\ nullDeref' = TRUE
         /\ \E out \in {"segv", "zero", "other"} :
              /\ cmpLog' = Append(cmpLog, [lit |-> lit, n |-> n, zero |-> (out = "zero")])
              /\ pc' = CASE out = "segv" -> "killed"
                         [] out = "zero" -> onZero
                         [] out = "other" -> onOther

\* faulty variant: the length counts the terminator, so only the exact
\* string "pre" matches
Cmd_CmpPre_Len4 ==
  /\ prog = "cmd" /\ pc = "cmp_pre"
  /\ CmpBranch(S_pre, 4, "exec_pre", "cmp_post")
  /\ trace' = Append(trace, "cmp_pre")
  /\ UNCHANGED <<inputs, uids, gids, gid, origcmd, stdout, stderr, execLog,
                 idLog, exitStatus>>

\* if ( strncmp(origcmd, "pre", 3) == 0 ) {
Cmd_CmpPre ==
  /\ prog = "cmd" /\ pc = "cmp_pre"
  /\ CmpBranch(S_pre, 3, "exec_pre", "cmp_post")
  /\ trace' = Append(trace, "cmp_pre")
  /\ UNCHANGED <<inputs, uids, gids, gid, origcmd, stdout, stderr, execLog,
                 idLog, exitStatus>>

\* faulty variant: a failed exec of the pre action falls back to the post
\* action
Cmd_ExecPre_Fallback ==
  /\ prog = "cmd" /\ pc = "exec_pre"
  /\ ExecOrPerror("/root/bin/rsnapshot-pre.sh", <<"rsnapshot-pre.sh">>, "exec_post")
  /\ trace' = Append(trace, "exec_pre")
  /\ UNCHANGED <<inputs, uids, gids, gid, origcmd, stdout, cmpLog, idLog,
                 nullDeref, exitStatus>>

\* if (execl("/root/bin/rsnapshot-pre.sh", "rsnapshot-pre.sh", NULL) < 0) {
\*   perror("Execl:"); }
Cmd_ExecPre ==
  /\ prog = "cmd" /\ pc = "exec_pre"
  /\ ExecOrPerror("/root/bin/rsnapshot-pre.sh", <<"rsnapshot-pre.sh">>, "exit0")
  /\ trace' = Append(trace, "exec_pre")
  /\ UNCHANGED <<inputs, uids, gids, gid, origcmd, stdout, cmpLog, idLog,
                 nullDeref, exitStatus>>

\* faulty variant: the second comparison repeats the first one's literal
Cmd_CmpPost_PreAgain ==
  /\ prog = "cmd" /\ pc = "cmp_post"
  /\ CmpBranch(S_pre, 3, "exec_post", "invalid")
  /\ trace' = Append(trace, "cmp_post")
  /\ UNCHANGED <<inputs, uids, gids, gid, origcmd, stdout, stderr, execLog,
                 idLog, exitStatus>>

\* faulty variant: the result of strncmp is used as a truth value, so the
\* post action runs when the strings differ
Cmd_CmpPost_Truthy ==
  /\ prog = "cmd" /\ pc = "cmp_post"
  /\ CmpBranch(S_post, 4, "invalid", "exec_post")
  /\ trace' = Append(trace, "cmp_post")
  /\ UNCHANGED <<inputs, uids, gids, gid, origcmd, stdout, stderr, execLog,
                 idLog, exitStatus>>

\* faulty variant: whole-string comparison (the terminator is compared too)
Cmd_CmpPost_Exact ==
  /\ prog = "cmd" /\ pc = "cmp_post"
  /\ CmpBranch(S_post, 5, "exec_post", "invalid")
  /\ trace' = Append(trace, "cmp_post")
  /\ UNCHANGED <<inputs, uids, gids, gid, origcmd, stdout, stderr, execLog,
                 idLog, exitStatus>>

\* } else if ( strncmp(origcmd, "post", 4) == 0 ) {
Cmd_CmpPost ==
  /\ prog = "cmd" /\ pc = "cmp_post"
  /\ CmpBranch(S_post, 4, "exec_post", "invalid")
  /\ trace' = Append(trace, "cmp_post")
  /\ UNCHANGED <<inputs, uids, gids, gid, origcmd, stdout, stderr, execLog,
                 idLog, exitStatus>>

\* faulty variant: the requested command is handed to a shell
Cmd_ExecPost_Shell ==
  /\ prog = "cmd" /\ pc = "exec_post"
  /\ ExecOrPerror("/bin/sh", <<"sh", "-c", "$SSH_ORIGINAL_COMMAND">>, "exit0")
  /\ trace' = Append(trace, "exec_post")
  /\ UNCHANGED <<inputs, uids, gids, gid, origcmd, stdout, cmpLog, idLog,
                 nullDeref, exitStatus>>

\* if (execl("/root/bin/rsnapshot-post.sh", "rsnapshot-post.sh", NULL) < 0) {
\*   perror("Execl:"); }
Cmd_ExecPost ==
  /\ prog = "cmd" /\ pc = "exec_post"
  /\ ExecOrPerror("/root/bin/rsnapshot-post.sh", <<"rsnapshot-post.sh">>, "exit0")
  /\ trace' = Append(trace, "exec_post")
  /\ UNCHANGED <<inputs, uids, gids, gid, origcmd, stdout, cmpLog, idLog,
                 nullDeref, exitStatus>>

\* } else { printf("ERROR: Invalid command: %s\n", origcmd);
\*          printf("Usage: COMMAND [pre|post]\n"); exit(1); }
\* %s of a null pointer is undefined: the C library may print "(null)" or
\* the process may be killed by SIGSEGV.
Cmd_Invalid ==
  /\ prog = "cmd" /\ pc = "invalid"
  /\ trace' = Append(trace, "invalid")
  /\ IF origcmd.present
       THEN /\ stdout' = stdout \o <<OutS("ERROR: Invalid command: %s\n", origcmd.str),
                                     Out("Usage: COMMAND [pre|post]\n")>>
            /\ Exit(1)
            /\ UNCHANGED nullDeref
       ELSE /\ nullDeref' = TRUE
            /\ \/ /\ stdout' = stdout \o <<OutS("ERROR: Invalid command: %s\n", S_null),
                                           Out("Usage: COMMAND [pre|post]\n")>>
                  /\ Exit(1)
               \/ /\ pc' = "killed"
                  /\ UNCHANGED <<stdout, exitStatus>>
  /\ UNCHANGED <<inputs, uids, gids, gid, origcmd, stderr, execLog, cmpLog, idLog>>

\* exit(0);   reached only when execl returned
Cmd_Exit0 ==
  /\ prog = "cmd" /\ pc = "exit0"
  /\ Exit(0)
  /\ trace' = Append(trace, "exit0")
  /\ UNCHANGED <<inputs, uids, gids, gid, origcmd, logs>>

(* -------------------------- rsync-wrapper.c -------------------------- *)
\* the fixed argument vector of the rsync action
RsyncArgv ==
  <<"rsync", "--server", "--sender", "-vlogDtprRe.iLsf", "--numeric-ids", ".", "/">>

\* gid = getgid();
Rsync_GetGid ==
  /\ prog = "rsync" /\ pc = "getgid"
  /\ gid' = rgid
  /\ pc' = "drop_egid"
  /\ trace' = Append(trace, "getgid")
  /\ UNCHANGED <<inputs, uids, gids, origcmd, logs, exitStatus>>

\* setegid(getgid());
Rsync_DropEgid ==
  /\ prog = "rsync" /\ pc = "drop_egid"
  /\ Setegid(rgid)
  /\ pc' = "drop_euid"
  /\ trace' = Append(trace, "drop_egid")
  /\ UNCHANGED <<inputs, gid, origcmd, stdout, stderr, execLog, cmpLog,
                 nullDeref, exitStatus>>

\* seteuid(getuid());
Rsync_DropEuid ==
  /\ prog = "rsync" /\ pc = "drop_euid"
  /\ Seteuid(ruid)
  /\ pc' = "auth"
  /\ trace' = Append(trace, "drop_euid")
  /\ UNCHANGED <<inputs, gid, origcmd, stdout, stderr, execLog, cmpLog,
                 nullDeref, exitStatus>>

\* faulty variant: the argument count is tested before the group
Rsync_AuthCheck_ArgcFirst ==
  /\ prog = "rsync" /\ pc = "auth"
  /\ trace' = Append(trace, "auth")
  /\ IF argc # 1
       THEN /\ stdout' = Append(stdout, Out("Usage: rsync-wrapper\n"))
            /\ Exit(1)
       ELSE IF gid # AUTHORIZED_GID
         THEN /\ stdout' = Append(stdout, Out("User Not Authorized! Exiting...\n"))
              /\ Exit(1)
         ELSE /\ pc' = "argc"
              /\ UNCHANGED <<stdout, exitStatus>>
  /\ UNCHANGED <<inputs, uids, gids, gid, origcmd, stderr, execLog, cmpLog,
                 idLog, nullDeref>>

\* if ( gid != 502 ) { printf("User Not Authorized! Exiting...\n"); exit(1); }
Rsync_AuthCheck ==
  /\ prog = "rsync" /\ pc = "auth"
  /\ trace' = Append(trace, "auth")
  /\ IF gid # AUTHORIZED_GID
       THEN /\ stdout' = Append(stdout, Out("User Not Authorized! Exiting...\n"))
            /\ Exit(1)
       ELSE /\ pc' = "argc"
            /\ UNCHANGED <<stdout, exitStatus>>
  /\ UNCHANGED <<inputs, uids, gids, gid, origcmd, stderr, execLog, cmpLog,
                 idLog, nullDeref>>

\* if ( argc != 1 ) { printf("Usage: rsync-wrapper\n"); exit(1); }
Rsync_ArgcCheck ==
  /\ prog = "rsync" /\ pc = "argc"
  /\ trace' = Append(trace, "argc")
  /\ IF argc # 1
       THEN /\ stdout' = Append(stdout, Out("Usage: rsync-wrapper\n"))
            /\ Exit(1)
       ELSE /\ pc' = "esc_egid"
            /\ UNCHANGED <<stdout, exitStatus>>
  /\ UNCHANGED <<inputs, uids, gids, gid, origcmd, stderr, execLog, cmpLog,
                 idLog, nullDeref>>

\* setegid(0);
Rsync_EscEgid ==
  /\ prog = "rsync" /\ pc = "esc_egid"
  /\ Setegid(ROOT)
  /\ pc' = "esc_euid"
  /\ trace' = Append(trace, "esc_egid")
  /\ UNCHANGED <<inputs, gid, origcmd, stdout, stderr, execLog, cmpLog,
                 nullDeref, exitStatus>>

\* seteuid(0);
Rsync_EscEuid ==
  /\ prog = "rsync" /\ pc = "esc_euid"
  /\ Seteuid(ROOT)
  /\ pc' = "esc_gid"
  /\ trace' = Append(trace, "esc_euid")
  /\ UNCHANGED <<inputs, gid, origcmd, stdout, stderr, execLog, cmpLog,
                 nullDeref, exitStatus>>

\* setgid(0);
Rsync_EscGid ==
  /\ prog = "rsync" /\ pc = "esc_gid"
  /\ Setgid(ROOT)
  /\ pc' = "esc_uid"
  /\ trace' = Append(trace, "esc_gid")
  /\ UNCHANGED <<inputs, gid, origcmd, stdout, stderr, execLog, cmpLog,
                 nullDeref, exitStatus>>

\* faulty variant (of the unchecked call): the result of setuid(0) is tested
\* and a refusal ends the run with exit(1)
Rsync_EscUid_Checked ==
  /\ prog = "rsync" /\ pc = "esc_uid"
  /\ Setuid(ROOT)
  /\ IF euid = ROOT \/ ROOT \in {ruid, suid}
       THEN /\ pc' = "exec_rsync"
            /\ UNCHANGED exitStatus
       ELSE Exit(1)
  /\ trace' = Append(trace, "esc_uid")
  /\ UNCHANGED <<inputs, gid, origcmd, stdout, stderr, execLog, cmpLog,
                 nullDeref>>

\* setuid(0);
Rsync_EscUid ==
  /\ prog = "rsync" /\ pc = "esc_uid"
  /\ Setuid(ROOT)
  /\ pc' = "exec_rsync"
  /\ trace' = Append(trace, "esc_uid")
  /\ UNCHANGED <<inputs, gid, origcmd, stdout, stderr, execLog, cmpLog,
                 nullDeref, exitStatus>>

\* faulty variant: a requested command, when there is one, is forwarded to
\* rsync in place of the fixed arguments
Rsync_Exec_Forward ==
  /\ prog = "rsync" /\ pc = "exec_rsync"
  /\ IF env.present
       THEN ExecOrPerror("/usr/bin/rsync", <<"rsync", "$SSH_ORIGINAL_COMMAND">>, "exit0")
       ELSE ExecOrPerror("/usr/bin/rsync", RsyncArgv, "exit0")
  /\ trace' = Append(trace, "exec_rsync")
  /\ UNCHANGED <<inputs, uids, gids, gid, origcmd, stdout, cmpLog, idLog,
                 nullDeref, exitStatus>>

\* if (execl("/usr/bin/rsync", "rsync", "--server", "--sender",
\*           "-vlogDtprRe.iLsf", "--numeric-ids", ".", "/", NULL) < 0) {
\*   perror("Execl:"); }
Rsync_Exec ==
  /\ prog = "rsync" /\ pc = "exec_rsync"
  /\ ExecOrPerror("/usr/bin/rsync", RsyncArgv, "exit0")
  /\ trace' = Append(trace, "exec_rsync")
  /\ UNCHANGED <<inputs, uids, gids, gid, origcmd, stdout, cmpLog, idLog,
                 nullDeref, exitStatus>>

\* exit(0);   reached only when execl returned
Rsync_Exit0 ==
  /\ prog = "rsync" /\ pc = "exit0"
  /\ Exit(0)
  /\ trace' = Append(trace, "exit0")
  /\ UNCHANGED <<inputs, uids, gids, gid, origcmd, logs>>

(* ------------------------ print-cmd-wrapper.c ------------------------ *)
\* origcmd = getenv("SSH_ORIGINAL_COMMAND");
PrintCmd_GetEnv ==
  /\ prog = "print" /\ pc = "getenv"
  /\ origcmd' = env
  /\ pc' = "printf"
  /\ trace' = Append(trace, "getenv")
  /\ UNCHANGED <<inputs, uids, gids, gid, logs, exitStatus>>

\* printf ("Original Command:%s\n", origcmd);
\* %s of a null pointer is undefined: the C library may print "(null)" or
\* the process may be killed by SIGSEGV.
PrintCmd_Printf ==
  /\ prog = "print" /\ pc = "printf"
  /\ trace' = Append(trace, "printf")
  /\ IF origcmd.present
       THEN /\ stdout' = Append(stdout, OutS("Original Command:%s\n", origcmd.str))
            /\ pc' = "exit0"
            /\ UNCHANGED nullDeref
       ELSE /\ nullDeref' = TRUE
            /\ \/ /\ stdout' = Append(stdout, OutS("Original Command:%s\n", S_null))
                  /\ pc' = "exit0"
               \/ /\ pc' = "killed"
                  /\ UNCHANGED stdout
  /\ UNCHANGED <<inputs, uids, gids, gid, origcmd, stderr, execLog, cmpLog,
                 idLog, exitStatus>>

\* exit(0);
PrintCmd_Exit0 ==
  /\ prog = "print" /\ pc = "exit0"
  /\ Exit(0)
  /\ trace' = Append(trace, "exit0")
  /\ UNCHANGED <<inputs, uids, gids, gid, origcmd, logs>>

(* --------------------------- specification --------------------------- *)
Next ==
  \/ Cmd_GetEnv
  \/ Cmd_GetGid
  \/ Cmd_DropEgid
  \/ Cmd_DropEuid
  \/ Cmd_AuthCheck
  \/ Cmd_ArgcCheck
  \/ Cmd_EscEgid
  \/ Cmd_EscEuid
  \/ Cmd_EscGid
  \/ Cmd_EscUid
  \/ Cmd_CmpPre
  \/ Cmd_ExecPre
  \/ Cmd_CmpPost
  \/ Cmd_ExecPost
  \/ Cmd_Invalid
  \/ Cmd_Exit0
  \/ Rsync_GetGid
  \/ Rsync_DropEgid
  \/ Rsync_DropEuid
  \/ Rsync_AuthCheck
  \/ Rsync_ArgcCheck
  \/ Rsync_EscEgid
  \/ Rsync_EscEuid
  \/ Rsync_EscGid
  \/ Rsync_EscUid
  \/ Rsync_Exec
  \/ Rsync_Exit0
  \/ PrintCmd_GetEnv
  \/ PrintCmd_Printf
  \/ PrintCmd_Exit0

Spec == Init /\ [][Next]_vars

\* main runs to its end without waiting for anything: a statement that can
\* be executed is executed
FairSpec == Spec /\ WF_vars(Next)

\* every variable keeps a value of the expected shape
TypeOK ==
  /\ prog \in Programs
  /\ argc \in 0..MaxArgc
  /\ env \in EnvValues
  /\ origcmd \in {NULL, env}
  /\ {ruid, euid, suid} \subseteq Uids
  /\ {rgid, egid, sgid} \subseteq Gids
  /\ gid \in Gids
  /\ exitStatus \in {NoStatus, 0, 1}
  /\ nullDeref \in BOOLEAN
  /\ (pc = "exited") = (exitStatus # NoStatus)

(* ------------------------ vocabulary of the claims ------------------- *)
Dispatcher == prog \in {"cmd", "rsync"}
Done == pc \in Terminal
Elems(q) == {q[i] : i \in 1..Len(q)}

\* s begins with the bytes of lit
HasPrefix(s, lit) == Len(s) >= Len(lit) /\ SubSeq(s, 1, Len(lit)) = lit

MsgUnauthorized == Out("User Not Authorized! Exiting...\n")
PreAction == [path |-> "/root/bin/rsnapshot-pre.sh", argv |-> <<"rsnapshot-pre.sh">>]
PostAction == [path |-> "/root/bin/rsnapshot-post.sh", argv |-> <<"rsnapshot-post.sh">>]
RsyncAction == [path |-> "/usr/bin/rsync", argv |-> RsyncArgv]

\* the compile-time action table of each dispatcher
ActionTable(p) ==
  CASE p = "cmd" -> {PreAction, PostAction}
    [] p = "rsync" -> {RsyncAction}
    [] OTHER -> {}

\* the (path, argument vector) pairs of the execs attempted so far
Execs == [i \in 1..Len(execLog) |-> [path |-> execLog[i].path, argv |-> execLog[i].argv]]

EscSteps == {"esc_egid", "esc_euid", "esc_gid", "esc_uid"}

\* an authorized caller of cmd-wrapper with the expected argument count
CmdAuthorized == prog = "cmd" /\ start.rgid = AUTHORIZED_GID /\ argc = 1

(* ------------------------------- C1 ---------------------------------- *)
\* C1: in cmd-wrapper and rsync-wrapper, a caller whose real gid is not 502
\* never gets past the authorization test: no exec is attempted, the process
\* is neither replaced nor killed, and when it has ended it has called
\* exit(1) - for every argument count and command value.
C1_UnauthorizedExitsOne ==
  (Dispatcher /\ start.rgid # AUTHORIZED_GID) =>
    /\ execLog = <<>>
    /\ pc \in {"getenv", "getgid", "drop_egid", "drop_euid", "auth", "exited"}
    /\ exitStatus \in {NoStatus, 1}
    /\ (pc = "exited" => exitStatus = 1)

C1_Witness ==
  /\ prog = "cmd" /\ start.rgid = 999 /\ argc = 1 /\ env = Ptr(S_pre)
  /\ pc = "exited" /\ exitStatus = 1 /\ execLog = <<>>

(* ------------------------------- C2 ---------------------------------- *)
\* validation has selected an action: cmd-wrapper has matched a prefix,
\* rsync-wrapper has passed its argument-count test
Validated ==
  \/ prog = "cmd" /\ \E i \in 1..Len(cmpLog) : cmpLog[i].zero
  \/ prog = "rsync" /\ "argc" \in Elems(trace) /\ argc = 1

\* an exit through the authorization, usage or validation failure: these
\* are the exits that print to stdout
FailureExit == pc = "exited" /\ stdout # <<>>

\* C2: in both dispatchers no re-escalation call is made before validation
\* has selected an action, and every authorization, usage or validation
\* failure exit happens with the effective ids equal to the caller's real ids.
C2_EscalationAfterValidation ==
  Dispatcher =>
    /\ (Elems(trace) \cap EscSteps # {} => Validated)
    /\ (FailureExit => euid = start.ruid /\ egid = start.rgid)

(* ------------------------------- C3 ---------------------------------- *)
\* C3: in cmd-wrapper, for an authorized caller with argument count 1 and no
\* SSH_ORIGINAL_COMMAND, the null pointer is never passed to strncmp or %s,
\* no exec is attempted, and the run ends only by exit(1).
C3_NullFailsClosed ==
  (CmdAuthorized /\ ~env.present) =>
    /\ ~nullDeref
    /\ execLog = <<>>
    /\ pc \notin {"replaced", "killed"}
    /\ (pc = "exited" => exitStatus = 1)

(* ------------------------------- C4 ---------------------------------- *)
\* C4: in cmd-wrapper, for an authorized caller with argument count 1 and a
\* present command string that begins neither with "pre" nor with "post"
\* (the empty string included), no exec is attempted and the run ends only
\* by exit(1).
C4_UnrecognizedRejected ==
  (/\ CmdAuthorized
   /\ env.present
   /\ ~HasPrefix(env.str, S_pre)
   /\ ~HasPrefix(env.str, S_post)) =>
    /\ execLog = <<>>
    /\ pc \notin {"replaced", "killed", "exec_pre", "exec_post", "exit0"}
    /\ (pc = "exited" => exitStatus = 1)

C4_Witness ==
  /\ CmdAuthorized /\ env = Ptr(<<>>)
  /\ pc = "exited" /\ exitStatus = 1 /\ execLog = <<>>
  /\ Len(cmpLog) = 2

(* ------------------------------- C5 ---------------------------------- *)
\* C5: in both dispatchers, a run whose execl failed reports the error and
\* ends with exit status 1, never 0.
C5_ExecFailureExitsOne ==
  (/\ Dispatcher
   /\ execLog # <<>>
   /\ ~execLog[Len(execLog)].ok
   /\ pc = "exited") =>
    /\ stderr # <<>>
    /\ exitStatus = 1

(* ------------------------------- C6 ---------------------------------- *)
\* what a finished run of rsync-wrapper looks like, as a function of the
\* real gid, the argument count and the result of execl only
RsyncOutcome(g, n, ok) ==
  IF g # AUTHORIZED_GID
    THEN [pc |-> "exited", status |-> 1, out |-> <<MsgUnauthorized>>,
          err |-> <<>>, execs |-> <<>>]
  ELSE IF n # 1
    THEN [pc |-> "exited", status |-> 1, out |-> <<Out("Usage: rsync-wrapper\n")>>,
          err |-> <<>>, execs |-> <<>>]
  ELSE IF ok
    THEN [pc |-> "replaced", status |-> NoStatus, out |-> <<>>,
          err |-> <<>>, execs |-> <<RsyncAction>>]
  ELSE [pc |-> "exited", status |-> 0, out |-> <<>>,
        err |-> <<"Execl:">>, execs |-> <<RsyncAction>>]

Outcome ==
  [pc |-> pc, status |-> exitStatus, out |-> stdout, err |-> stderr, execs |-> Execs]

\* C6: rsync-wrapper never reads or compares SSH_ORIGINAL_COMMAND; the
\* outcome of a finished run (how it ended, exit status, output, execs) is
\* determined by the real gid, the argument count and the result of execl,
\* so runs that differ only in the command value end alike; with real gid
\* 502 and argument count 1 the only exec is /usr/bin/rsync with the fixed
\* argument vector.
C6_RsyncIgnoresCommand ==
  prog = "rsync" =>
    /\ origcmd = NULL /\ cmpLog = <<>> /\ ~nullDeref
    /\ Len(execLog) <= 1
    /\ \A i \in 1..Len(execLog) : Execs[i] = RsyncAction
    /\ Done => /\ \E ok \in BOOLEAN : Outcome = RsyncOutcome(start.rgid, argc, ok)
               /\ (start.rgid = AUTHORIZED_GID /\ argc = 1) => Execs = <<RsyncAction>>

C6_Witness ==
  /\ prog = "rsync" /\ start.rgid = AUTHORIZED_GID /\ argc = 1
  /\ env = Ptr(S_posterior)
  /\ pc = "replaced" /\ Execs = <<RsyncAction>>

(* ------------------------------- C7 ---------------------------------- *)
\* C7: in cmd-wrapper the first strncmp evaluated is the one against "pre";
\* for an authorized caller with argument count 1 and a command beginning
\* with "pre", the "post" comparison is never evaluated, the only exec ever
\* attempted is /root/bin/rsnapshot-pre.sh with argv ["rsnapshot-pre.sh"],
\* and a finished run has attempted it exactly once.
C7_PrePrefixSelectsPre ==
  prog = "cmd" =>
    /\ (cmpLog # <<>> => cmpLog[1].lit = S_pre)
    /\ (argc = 1 /\ start.rgid = AUTHORIZED_GID /\ env.present
          /\ HasPrefix(env.str, S_pre)) =>
         /\ \A i \in 1..Len(cmpLog) : cmpLog[i].lit = S_pre
         /\ \A i \in 1..Len(execLog) : Execs[i] = PreAction
         /\ Len(execLog) <= 1
         /\ pc \notin {"cmp_post", "exec_post", "invalid", "killed"}
         /\ (Done => Execs = <<PreAction>>)

C7_Witness ==
  /\ CmdAuthorized /\ env = Ptr(S_preempt)
  /\ pc = "replaced" /\ Execs = <<PreAction>> /\ Len(cmpLog) = 1

(* ------------------------------- C8 ---------------------------------- *)
\* C8: in both dispatchers every exec attempted uses a path and argument
\* vector of the program's fixed action table, whatever SSH_ORIGINAL_COMMAND
\* and the argument count are.
C8_ExecsFromActionTable ==
  Dispatcher => \A i \in 1..Len(execLog) : Execs[i] \in ActionTable(prog)

C8_Witness ==
  /\ CmdAuthorized /\ env = Ptr(S_postpre)
  /\ execLog # <<>> /\ Execs[1] = PostAction

(* ------------------------------- C9 ---------------------------------- *)
CmdPosterior == CmdAuthorized /\ env = Ptr(S_posterior)

\* C9 as stated: in cmd-wrapper, an authorized caller with argument count 1
\* and command "posterior" never execs the post action and ends by exit(1).
C9_PosteriorRejected ==
  CmdPosterior =>
    /\ PostAction \notin Elems(Execs)
    /\ pc # "replaced"
    /\ (pc = "exited" => exitStatus = 1)

\* C9 as amended: in cmd-wrapper, an authorized caller with argument count 1
\* and command "posterior" is accepted by the 4-byte "post" comparison: the
\* invalid-command branch is never taken, the only exec attempted is
\* /root/bin/rsnapshot-post.sh with argv ["rsnapshot-post.sh"], a finished
\* run has attempted it, and the run never ends with exit status 1.
C9_PosteriorSelectsPost ==
  CmdPosterior =>
    /\ "invalid" \notin Elems(trace)
    /\ pc # "invalid"
    /\ stdout = <<>>
    /\ \A i \in 1..Len(execLog) : Execs[i] = PostAction
    /\ exitStatus # 1
    /\ (Done => Execs = <<PostAction>>)

C9_Witness ==
  /\ CmdPosterior /\ pc = "replaced" /\ Execs = <<PostAction>>
  /\ Len(cmpLog) = 2 /\ cmpLog[2].zero

(* ------------------------------- C10 --------------------------------- *)
\* C10: in both dispatchers, for a caller whose real gid is not 502 the
\* argument-count test is never executed and no strncmp is evaluated; the
\* only output is the authorization diagnostic, and the run ends at the
\* authorization test with that diagnostic and exit status 1, whatever the
\* argument count and the command value are.
C10_AuthorizationGateFirst ==
  (Dispatcher /\ start.rgid # AUTHORIZED_GID) =>
    /\ "argc" \notin Elems(trace)
    /\ cmpLog = <<>>
    /\ ~nullDeref
    /\ stdout \in {<<>>, <<MsgUnauthorized>>}
    /\ Done => /\ pc = "exited" /\ exitStatus = 1
               /\ stdout = <<MsgUnauthorized>>
               /\ trace[Len(trace)] = "auth"

C10_Witness ==
  /\ prog = "rsync" /\ start.rgid = ROOT /\ argc = 2 /\ ~env.present
  /\ pc = "exited" /\ exitStatus = 1 /\ stdout = <<MsgUnauthorized>>

(* ------------------------------- C11 --------------------------------- *)
\* the set*id calls made so far, as (name, argument) pairs
IdCalls == [i \in 1..Len(idLog) |-> <<idLog[i].call, idLog[i].arg>>]

\* the calls of the re-escalation, in source order
EscalationCalls ==
  <<<<"setegid", ROOT>>, <<"seteuid", ROOT>>, <<"setgid", ROOT>>, <<"setuid", ROOT>>>>

\* an execl is about to be attempted, or has been
AtExec == pc \in {"exec_pre", "exec_post", "exec_rsync"} \/ execLog # <<>>

\* C11: in both dispatchers the calls that follow the two calls of the drop
\* are setegid(0), seteuid(0), setgid(0), setuid(0) in exactly this order,
\* all four are made before any exec, and when the process started with
\* effective uid 0 (set-user-id root) the real and effective uid and gid are
\* all 0 when the exec is attempted.
C11_EscalationOrder ==
  Dispatcher =>
    /\ Len(idLog) <= 6
    /\ \A i \in 3..Len(idLog) : IdCalls[i] = EscalationCalls[i - 2]
    /\ AtExec => /\ Len(idLog) = 6
                 /\ start.euid = ROOT =>
                      (ruid = ROOT /\ euid = ROOT /\ rgid = ROOT /\ egid = ROOT)

\* a set-user-id (not set-group-id) start by an unprivileged caller: the
\* setegid(0) call itself is refused, yet all four ids are 0 at the exec
C11_Witness ==
  /\ prog = "cmd" /\ pc = "exec_pre"
  /\ start = [ruid |-> 1000, euid |-> ROOT, rgid |-> AUTHORIZED_GID, egid |-> AUTHORIZED_GID]
  /\ Len(idLog) = 6 /\ ~idLog[3].ok
  /\ ruid = ROOT /\ euid = ROOT /\ rgid = ROOT /\ egid = ROOT

(* ------------------------------- C12 --------------------------------- *)
\* the usage message of each dispatcher's argument-count test
MsgUsage(p) ==
  IF p = "cmd" THEN Out("Usage: cmd-wrapper [pre|post]\n")
  ELSE Out("Usage: rsync-wrapper\n")

\* C12: in both dispatchers, for a caller with real gid 502 and an argument
\* count other than 1, no re-escalation call is made, no strncmp is
\* evaluated and no exec is attempted; the run ends at the argument-count
\* test, having printed the usage message only, with exit status 1 -
\* whatever the command value is.
C12_UsageError ==
  (Dispatcher /\ start.rgid = AUTHORIZED_GID /\ argc # 1) =>
    /\ Elems(trace) \cap EscSteps = {}
    /\ Len(idLog) <= 2
    /\ cmpLog = <<>>
    /\ execLog = <<>>
    /\ stdout \in {<<>>, <<MsgUsage(prog)>>}
    /\ Done => /\ pc = "exited" /\ exitStatus = 1
               /\ stdout = <<MsgUsage(prog)>>
               /\ trace[Len(trace)] = "argc"

C12_Witness ==
  /\ prog = "cmd" /\ start.rgid = AUTHORIZED_GID /\ argc = 2 /\ env = Ptr(S_post)
  /\ pc = "exited" /\ exitStatus = 1
  /\ stdout = <<Out("Usage: cmd-wrapper [pre|post]\n")>>

(* ------------------------------- C13 --------------------------------- *)
ExecSteps == {"exec_pre", "exec_post", "exec_rsync"}

\* C13: in both dispatchers at most one exec is attempted per run, and once
\* an exec has failed the only statement still executed is the final exit:
\* no other exec, no identity call, no comparison.
C13_AtMostOneExec ==
  Dispatcher =>
    /\ Len(execLog) <= 1
    /\ Cardinality({i \in 1..Len(trace) : trace[i] \in ExecSteps}) <= 1
    /\ \A i \in 1..Len(trace) :
         trace[i] \in ExecSteps =>
           /\ Len(idLog) = 6
           /\ \A j \in (i + 1)..Len(trace) : trace[j] = "exit0"
    /\ (execLog # <<>> /\ ~execLog[1].ok) => pc \in {"exit0", "exited"}

C13_Witness ==
  /\ CmdAuthorized /\ env = Ptr(S_prepost)
  /\ pc = "exited"
  /\ Len(execLog) = 1 /\ ~execLog[1].ok /\ Execs = <<PreAction>>

(* ------------------------------- C14 --------------------------------- *)
\* the run ended at the authorization test
AuthorizationExit == pc = "exited" /\ stdout = <<MsgUnauthorized>>

\* C14: in both dispatchers, when the real gid is about to be compared with
\* 502 and when a run has ended by the authorization failure, both calls of
\* the drop have been made and succeeded, the effective gid equals the real
\* gid, the effective uid equals the real uid, and the real uid and gid are
\* those the process started with.
C14_DropBeforeAuthorization ==
  (Dispatcher /\ (pc = "auth" \/ AuthorizationExit)) =>
    /\ Len(idLog) = 2
    /\ idLog[1] = [call |-> "setegid", arg |-> start.rgid, ok |-> TRUE]
    /\ idLog[2] = [call |-> "seteuid", arg |-> start.ruid, ok |-> TRUE]
    /\ egid = rgid /\ euid = ruid
    /\ rgid = start.rgid /\ ruid = start.ruid
    /\ gid = start.rgid

\* a set-user-id and set-group-id root start by an unprivileged, unauthorized
\* caller, rejected with the caller's own ids in effect
C14_Witness ==
  /\ prog = "rsync" /\ AuthorizationExit
  /\ start = [ruid |-> 1000, euid |-> ROOT, rgid |-> 999, egid |-> ROOT]
  /\ euid = 1000 /\ egid = 999 /\ ruid = 1000 /\ rgid = 999

(* ------------------------------- C15 --------------------------------- *)
\* C15: in cmd-wrapper, for an authorized caller with argument count 1, the
\* command is matched by prefix, not by equality: a string whose first 4
\* bytes are "post" never reaches the invalid-command branch and the only
\* exec it leads to is /root/bin/rsnapshot-post.sh with argv
\* ["rsnapshot-post.sh"]; a string whose first 3 bytes are "pre" never
\* reaches the invalid-command branch either and a finished run has
\* attempted one exec.
C15_PrefixMatch ==
  (CmdAuthorized /\ env.present) =>
    /\ HasPrefix(env.str, S_post) =>
         /\ "invalid" \notin Elems(trace) /\ pc # "invalid"
         /\ \A i \in 1..Len(cmpLog) : cmpLog[i].zero = (cmpLog[i].lit = S_post)
         /\ \A i \in 1..Len(execLog) : Execs[i] = PostAction
         /\ (Done => Execs = <<PostAction>>)
    /\ HasPrefix(env.str, S_pre) =>
         /\ "invalid" \notin Elems(trace) /\ pc # "invalid"
         /\ \A i \in 1..Len(cmpLog) : cmpLog[i].zero
         /\ (Done => Len(execLog) = 1)

C15_Witness ==
  /\ CmdAuthorized /\ env = Ptr(S_posted)
  /\ pc = "replaced" /\ Execs = <<PostAction>>

(* ------------------------------- C16 --------------------------------- *)
\* position, in the state machine START -> AUTHORIZING -> VALIDATING ->
\* ESCALATING -> EXEC, of the state a statement belongs to
PhaseRank(step) ==
  CASE step \in {"getenv", "getgid"} -> 0
    [] step \in {"drop_egid", "drop_euid", "auth"} -> 1
    [] step \in {"argc", "cmp_pre", "cmp_post", "invalid"} -> 2
    [] step \in EscSteps -> 3
    [] step \in {"exec_pre", "exec_post", "exec_rsync", "exit0"} -> 4

\* C16 (safety part): every run of either dispatcher passes through the
\* states in the order START, AUTHORIZING, VALIDATING, ESCALATING, EXEC and
\* never returns to a state it has left: the statements executed belong to
\* states of non-decreasing position.
C16_FollowsStateMachine ==
  Dispatcher =>
    \A i \in 1..Len(trace) : \A j \in i..Len(trace) :
      PhaseRank(trace[i]) <= PhaseRank(trace[j])

\* what does hold of every run: no statement is executed twice
C16_NoStatementTwice ==
  Dispatcher => \A i \in 1..Len(trace) : \A j \in 1..Len(trace) :
                  trace[i] = trace[j] => i = j

\* what does hold of every run: it reaches an end (exit, image replacement,
\* or death by signal on the null-pointer paths)
C16_Terminates == <>Done

(* ------------------------------- C17 --------------------------------- *)
\* one of the four re-escalation calls was refused
EscalationRefused == \E i \in 3..Len(idLog) : ~idLog[i].ok

\* all four re-escalation calls were refused
EscalationAllRefused == Len(idLog) = 6 /\ \A i \in 3..6 : ~idLog[i].ok

\* C17: in both dispatchers a refused re-escalation call does not end the
\* run: the remaining calls are still made, the run never exits from an
\* escalation statement, and a finished run whose action was selected
\* (rsync-wrapper always, cmd-wrapper for a command with a recognised
\* prefix) has attempted its exec - when all four calls were refused, with
\* the ids the process started with.
C17_EscalationUnchecked ==
  (Dispatcher /\ EscalationRefused) =>
    /\ pc \notin EscSteps => Len(idLog) = 6
    /\ pc = "exited" => trace[Len(trace)] \in {"exit0", "invalid"}
    /\ (/\ Done
        /\ \/ prog = "rsync"
           \/ env.present /\ (HasPrefix(env.str, S_pre) \/ HasPrefix(env.str, S_post)))
         => Len(execLog) = 1
    /\ (EscalationAllRefused /\ AtExec) =>
         /\ ruid = start.ruid /\ euid = start.ruid
         /\ rgid = start.rgid /\ egid = start.rgid

\* a start without the set-user-id bit by an unprivileged caller: all four
\* calls are refused and rsync is exec'd with the caller's own ids
C17_Witness ==
  /\ prog = "rsync" /\ pc = "replaced" /\ Execs = <<RsyncAction>>
  /\ start = [ruid |-> 1000, euid |-> 1000, rgid |-> AUTHORIZED_GID, egid |-> AUTHORIZED_GID]
  /\ EscalationAllRefused
  /\ euid = 1000 /\ ruid = 1000 /\ egid = AUTHORIZED_GID /\ rgid = AUTHORIZED_GID

(* ------------------------------- C18 --------------------------------- *)
\* the authorization test has been executed
AuthorizationDecided == "auth" \in Elems(trace)

\* the authorization test rejected the caller
AuthorizationRejected == MsgUnauthorized \in Elems(stdout)

\* C18: in both dispatchers the caller is rejected exactly when the real gid
\* the process started with is not 502, whatever the real uid, effective
\* uid and effective gid at start are; a rejected run has ended with exit
\* status 1, an accepted one goes on to the argument-count test.
C18_DecisionByRealGid ==
  (Dispatcher /\ AuthorizationDecided) =>
    /\ AuthorizationRejected = (start.rgid # AUTHORIZED_GID)
    /\ AuthorizationRejected => (pc = "exited" /\ exitStatus = 1)
    /\ ~AuthorizationRejected => (pc = "argc" \/ "argc" \in Elems(trace))

\* a caller with real uid 0 whose real gid is not 502 is rejected
C18_Witness ==
  /\ prog = "cmd" /\ start.ruid = ROOT /\ start.euid = ROOT
  /\ start.rgid = 999 /\ start.egid = ROOT
  /\ AuthorizationRejected /\ pc = "exited" /\ exitStatus = 1

====
